---------------------------- MODULE Spec2Model ----------------------------
(***************************************************************************)
(* Model of static/geodesic.js: the GeodesicLine class (great-circle       *)
(* interpolation, flight path, antimeridian split) and the dashboard       *)
(* script (calculateGeodesicPoints, splitAtAntimeridian, the world-copy    *)
(* replication of lines and markers, and the construction of the trip      *)
(* layers on page load).                                                   *)
(*                                                                         *)
(* Numbers.  Latitudes and longitudes are integers in thousandths of a     *)
(* degree (179.999 degrees is 179999).  The JavaScript doubles of the      *)
(* trigonometry are fixed-point numbers with eight decimals: an angle in   *)
(* radians, a sine or a cosine v is the integer v * 10^8.  Every product   *)
(* is computed in two limbs so that no intermediate value leaves the       *)
(* 32-bit range of the model checker's integers.  The fixed-point          *)
(* functions agree with Math.sin, Math.cos, Math.atan2, Math.asin and      *)
(* Math.acos to about 1e-7 radian, and the interpolated points with the    *)
(* doubles of the script to a thousandth of a degree.                      *)
(***************************************************************************)
EXTENDS Integers, Sequences, FiniteSets, TLC

(***************************************************************************)
(* State                                                                   *)
(***************************************************************************)
VARIABLES
    tripsData,       \* window.tripsData: the trip records the page was served
    pc,              \* where the DOMContentLoaded handler stands: "loading", "ready"
    next,            \* the index of the trip that tripsData.forEach builds next
    tripLayers,      \* tripLayers: trip id -> [group, emissions, distance]
    mapLayers,       \* the ids of the trips whose tripGroup is on the map
    noTripsGroup,    \* the markers of noTripsGroup, << >> when it was not built
    checkboxes,      \* the .trip-checkbox elements: dataset.tripId -> checked
    textContent,     \* the text of the analytics elements, by element id
    mapView,         \* the view of the map: what setView or fitBounds was given last
    argPoints,          \* the argument of a call of one of the two splitters
    argEndpoints,       \* <<origin, dest>>: the arguments of a call of an interpolator
    argNumPoints,       \* numPoints of that call
    called,          \* the function that was called: "" before the call
    returned         \* what the call returned

vars == <<tripsData, pc, next, tripLayers, mapLayers, noTripsGroup,
          checkboxes, textContent, mapView,
          argPoints, argEndpoints, argNumPoints, called, returned>>

pageVars == <<tripsData, pc, next, tripLayers, mapLayers, noTripsGroup,
              checkboxes, textContent, mapView>>

callVars == <<argPoints, argEndpoints, argNumPoints, called, returned>>

(***************************************************************************)
(* Fixed-point arithmetic                                                  *)
(***************************************************************************)
Limb == 100 * 100

Scale == Limb * Limb

\* Math.PI, in radians * 10^8
PI == 314159265

TwoPi == 2 * PI + 1

HalfPi == (PI + 1) \div 2

Abs(a) == IF a >= 0 THEN a ELSE -a

Sgn(a) == IF a > 0 THEN 1 ELSE IF a < 0 THEN -1 ELSE 0

Min(a, b) == IF a <= b THEN a ELSE b

Max(a, b) == IF a >= b THEN a ELSE b

\* the array whose element at index k - 1 is f[k]: a sequence, held element by element
Array(f) == << >> \o f

\* a * b of two fixed-point numbers a, b >= 0, in two limbs
MulAbs(a, b) ==
    LET ah == a \div Limb
        al == a % Limb
        bh == b \div Limb
        bl == b % Limb
    IN  ah * bh + ((ah * bl + al * bh) + (al * bl) \div Limb) \div Limb

\* the product of two doubles
MulS(a, b) == Sgn(a) * Sgn(b) * MulAbs(Abs(a), Abs(b))

RECURSIVE Pow10(_)
Pow10(k) == IF k = 0 THEN 1 ELSE 10 * Pow10(k - 1)

RECURSIVE DivStep(_, _, _)
\* long division in base 10: the next k digits of r / b for a remainder r < b
DivStep(r, b, k) ==
    IF k = 0 THEN 0
    ELSE ((r * 10) \div b) * Pow10(k - 1) + DivStep((r * 10) % b, b, k - 1)

DivAbs(a, b) == (a \div b) * Scale + DivStep(a % b, b, 8)

\* the quotient a / b of two doubles, b # 0
DivS(a, b) == Sgn(a) * Sgn(b) * DivAbs(Abs(a), Abs(b))

\* floor(a * b / c) for integers a, b >= 0 and c > 0, exact, in two limbs
MulDivAbs(a, b, c) ==
    LET bh == b \div 1000
        bl == b % 1000
        t1 == a * bh
    IN  (t1 \div c) * 1000 + ((t1 % c) * 1000 + a * bl) \div c

\* i / n * x for a double x >= 0 and integers 0 <= i <= n: the fraction of the loops
FractionOf(i, n, x) == (x \div n) * i + ((x % n) * i) \div n

RECURSIVE SinTerms(_, _, _)
\* the Taylor series of sin from the term t of degree k on: t - t x^2 / ((k + 1)(k + 2)) + ...
\* up to the term of degree 13, each term from the one before it
SinTerms(x2, t, k) ==
    IF t = 0 \/ k > 13 THEN 0
    ELSE t - SinTerms(x2, MulS(t, x2) \div ((k + 1) * (k + 2)), k + 2)

\* sin on the first quadrant, 0 <= x <= pi/2, never more than 1
SinQ(x) == Min(Scale, SinTerms(MulS(x, x), x, 1))

\* Math.sin: the sine of the angle of the first quadrant with the same sine, up to
\* the sign
Sin(x) ==
    LET y == x % TwoPi
    IN  (IF y <= PI THEN 1 ELSE -1)
        * SinQ(IF y <= HalfPi THEN y
               ELSE IF y <= PI THEN PI - y
               ELSE IF y <= PI + HalfPi THEN y - PI
               ELSE TwoPi - y)

\* Math.cos
Cos(x) == Sin(x + HalfPi)

RECURSIVE ISqrtIt(_, _, _)
\* Newton's iteration for the integer square root of v from r above it, at most k steps
ISqrtIt(v, r, k) ==
    IF k = 0 \/ r * r <= v THEN r ELSE ISqrtIt(v, (r + v \div r) \div 2, k - 1)

\* Math.sqrt of a double 0 <= v <= 4
Sqrt(v) ==
    IF v <= 0 THEN 0
    ELSE LET w0 == Max(1, ISqrtIt(v, 20000, 20) * Limb)
             w1 == (w0 + DivS(v, w0)) \div 2
         IN  (w1 + DivS(v, w1)) \div 2

\* atan of a small tangent
AtanSmall(t) == t - MulS(t, MulS(t, t)) \div 3

\* the middle of the octant of (x, y): within pi/8 of atan2(y, x)
OctantGuess(y, x) ==
    LET ay == Abs(y)
        ax == Abs(x)
        g  == IF ax >= ay
              THEN (IF 5 * ay <= 2 * ax THEN 0 ELSE PI \div 8)
              ELSE (IF 5 * ax <= 2 * ay THEN HalfPi ELSE (3 * PI) \div 8)
    IN  IF x >= 0 /\ y >= 0 THEN g
        ELSE IF x < 0 /\ y >= 0 THEN PI - g
        ELSE IF x < 0 /\ y < 0 THEN g - PI
        ELSE -g

\* one step towards atan2(y, x) from th: add the angle between them
AtanRefine(y, x, th) ==
    LET c   == Cos(th)
        s   == Sin(th)
        num == MulS(y, c) - MulS(x, s)
        den == MulS(x, c) + MulS(y, s)
    IN  IF den <= 0 THEN th ELSE th + AtanSmall(DivS(num, den))

RECURSIVE AtanSteps(_, _, _, _)
\* at most k steps towards atan2(y, x) from th; a step that changes nothing ends them
AtanSteps(y, x, th, k) ==
    IF k = 0 THEN th
    ELSE LET closer == AtanRefine(y, x, th)
         IN  IF closer = th THEN th ELSE AtanSteps(y, x, closer, k - 1)

\* Math.atan2, in (-pi, pi]: three steps from the middle of the octant
Atan2(y, x) ==
    IF x = 0 /\ y = 0 THEN 0 ELSE AtanSteps(y, x, OctantGuess(y, x), 3)

\* Math.max(-1, Math.min(1, v))
Clamp(v) == Max(-Scale, Min(Scale, v))

\* Math.asin.  An argument that rounding carries past 1 is read as 1: the doubles
\* of the script overshoot at other inputs than these fixed-point numbers do.
Asin(v) == Atan2(Clamp(v), Sqrt(Scale - MulS(Clamp(v), Clamp(v))))

\* Math.acos on [-1, 1]
Acos(v) == Atan2(Sqrt(Scale - MulS(v, v)), v)

\* degrees (thousandths) to radians: d * Math.PI / 180
ToRad(d) ==
    Sgn(d) * (Abs(d) * 1745 + (Abs(d) * 3292) \div 10000 + (Abs(d) * 52) \div 1000000)

\* radians to degrees (thousandths): r * 180 / Math.PI
ToDeg(r) == Sgn(r) * ((MulAbs(Abs(r), 57295780) + 500) \div 1000)

(***************************************************************************)
(* The dashboard's interpolator and splitter                               *)
(***************************************************************************)
\* 180 degrees and the boundary longitude 179.999
Deg180 == 180000

Boundary == 179999

\* the threshold 0.001 radian under which the two end points are returned
MinSigma == 100000

\* the point i of the loop of calculateGeodesicPoints
GeodesicPointAt(i, numPoints, phi1, lambda1, dSigma, theta) ==
    LET sigma == FractionOf(i, numPoints, dSigma)
        phi   == Asin(MulS(Sin(phi1), Cos(sigma))
                      + MulS(MulS(Cos(phi1), Sin(sigma)), Cos(theta)))
        lam   == lambda1 + Atan2(MulS(MulS(Sin(theta), Sin(sigma)), Cos(phi1)),
                                 Cos(sigma) - MulS(Sin(phi1), Sin(phi)))
    IN  <<ToDeg(phi), ToDeg(lam)>>

\* const points = []; for (let i = 0; i <= numPoints; i++) points.push([lat, lon])
GeodesicLoop(numPoints, phi1, lambda1, dSigma, theta) ==
    Array([k \in 1..(numPoints + 1) |->
              GeodesicPointAt(k - 1, numPoints, phi1, lambda1, dSigma, theta)])

\* calculateGeodesicPoints(lat1, lon1, lat2, lon2, numPoints)
calculateGeodesicPoints(lat1, lon1, lat2, lon2, numPoints) ==
    LET phi1    == ToRad(lat1)
        lambda1 == ToRad(lon1)
        phi2    == ToRad(lat2)
        lam2    == ToRad(lon2)
        lonDiff == ToDeg(lam2 - lambda1)
        lambda2 == IF Abs(lonDiff) > Deg180
                   THEN (IF lonDiff > 0 THEN lam2 - TwoPi ELSE lam2 + TwoPi)
                   ELSE lam2
        dLambda == lambda2 - lambda1
        dSigma  == Acos(Clamp(MulS(Sin(phi1), Sin(phi2))
                              + MulS(MulS(Cos(phi1), Cos(phi2)), Cos(dLambda))))
        theta   == Atan2(MulS(Sin(dLambda), Cos(phi2)),
                         MulS(Cos(phi1), Sin(phi2))
                         - MulS(MulS(Sin(phi1), Cos(phi2)), Cos(dLambda)))
    IN  IF dSigma < MinSigma
        THEN << <<lat1, lon1>>, <<lat2, lon2>> >>
        ELSE GeodesicLoop(numPoints, phi1, lambda1, dSigma, theta)

\* midLat = prevLat + (lat - prevLat) * (180 - |prevLon|) / |lon - prevLon|
MidLat(prevLat, prevLon, lat, lon) ==
    prevLat + Sgn(lat - prevLat) * Sgn(Deg180 - Abs(prevLon))
              * MulDivAbs(Abs(lat - prevLat), Abs(Deg180 - Abs(prevLon)), Abs(lon - prevLon))

\* a loop body that, on a crossing, starts the new segment without the point pt
SplitCrossing_DropsPoint(segments, currentSegment, prev, pt) ==
    LET midLat   == MidLat(prev[1], prev[2], pt[1], pt[2])
        midLon   == IF prev[2] > 0 THEN Boundary ELSE -Boundary
        otherLon == IF prev[2] > 0 THEN -Boundary ELSE Boundary
    IN  << Append(segments, Append(currentSegment, <<midLat, midLon>>)),
           << <<midLat, otherLon>> >> >>

\* what the loop body of splitAtAntimeridian does on a crossing: <<segments, currentSegment>>
SplitCrossing(segments, currentSegment, prev, pt) ==
    LET midLat   == MidLat(prev[1], prev[2], pt[1], pt[2])
        midLon   == IF prev[2] > 0 THEN Boundary ELSE -Boundary
        otherLon == IF prev[2] > 0 THEN -Boundary ELSE Boundary
    IN  << Append(segments, Append(currentSegment, <<midLat, midLon>>)),
           << <<midLat, otherLon>>, pt >> >>

\* a loop body that takes a difference of exactly 180 degrees for a crossing
SplitStep_SplitsAt180(segments, currentSegment, pt) ==
    IF Len(currentSegment) = 0
    THEN <<segments, <<pt>> >>
    ELSE LET prev == currentSegment[Len(currentSegment)]
         IN  IF Abs(pt[2] - prev[2]) >= Deg180
             THEN << Append(segments, Append(currentSegment,
                                             <<MidLat(prev[1], prev[2], pt[1], pt[2]),
                                               IF prev[2] > 0 THEN Boundary ELSE -Boundary>>)),
                     << <<MidLat(prev[1], prev[2], pt[1], pt[2]),
                          IF prev[2] > 0 THEN -Boundary ELSE Boundary>>, pt >> >>
             ELSE <<segments, Append(currentSegment, pt)>>

\* the loop body of splitAtAntimeridian for the point pt: <<segments, currentSegment>>
SplitStep(segments, currentSegment, pt) ==
    IF Len(currentSegment) = 0
    THEN <<segments, <<pt>> >>
    ELSE LET prev == currentSegment[Len(currentSegment)]
         IN  IF Abs(pt[2] - prev[2]) > Deg180
             THEN SplitCrossing(segments, currentSegment, prev, pt)
             ELSE <<segments, Append(currentSegment, pt)>>

RECURSIVE SplitLoop(_, _, _, _)
\* the iterations of for (let i = 0; i < points.length; i++) for the points at
\* lo..hi, in order, from acc = <<segments, currentSegment>>.  The range is halved
\* (first half, then second half from where the first ended) only to keep the
\* evaluation shallow; the test of the pair, which always holds, makes the first
\* half be evaluated before the second.
SplitLoop(points, lo, hi, acc) ==
    IF lo > hi THEN acc
    ELSE IF lo = hi THEN SplitStep(acc[1], acc[2], points[lo])
    ELSE LET firstHalf == SplitLoop(points, lo, (lo + hi) \div 2, acc)
         IN  IF Len(firstHalf) = 2
             THEN SplitLoop(points, (lo + hi) \div 2 + 1, hi, firstHalf)
             ELSE firstHalf

\* if (currentSegment.length > 0) segments.push(currentSegment)
PushLast(segments, currentSegment) ==
    IF Len(currentSegment) > 0 THEN Append(segments, currentSegment) ELSE segments

\* splitAtAntimeridian(points) of the dashboard: the list of segments
splitAtAntimeridian(points) ==
    LET end == SplitLoop(points, 1, Len(points), << << >>, << >> >>)
    IN  PushLast(end[1], end[2])

(***************************************************************************)
(* The class GeodesicLine                                                  *)
(***************************************************************************)
RECURSIVE NormalizeLon(_)
\* while (lon > 180) lon -= 360; while (lon < -180) lon += 360
NormalizeLon(lon) ==
    IF lon > Deg180 THEN NormalizeLon(lon - 2 * Deg180)
    ELSE IF lon < -Deg180 THEN NormalizeLon(lon + 2 * Deg180)
    ELSE lon

\* the point i of the loop of GeodesicLine.calculateGreatCircle
GreatCirclePointAt(i, numPoints, phi1, lambda1, phi2, lambda2, dSigma) ==
    LET A  == DivS(Sin(FractionOf(numPoints - i, numPoints, dSigma)), Sin(dSigma))
        B  == DivS(Sin(FractionOf(i, numPoints, dSigma)), Sin(dSigma))
        x  == MulS(MulS(A, Cos(phi1)), Cos(lambda1)) + MulS(MulS(B, Cos(phi2)), Cos(lambda2))
        y  == MulS(MulS(A, Cos(phi1)), Sin(lambda1)) + MulS(MulS(B, Cos(phi2)), Sin(lambda2))
        z  == MulS(A, Sin(phi1)) + MulS(B, Sin(phi2))
        phi == Atan2(z, Sqrt(MulS(x, x) + MulS(y, y)))
        lam == Atan2(y, x)
    IN  <<ToDeg(phi), NormalizeLon(ToDeg(lam))>>

\* const points = []; for (let i = 0; i <= numPoints; i++) points.push([lat, lon])
GreatCircleLoop(numPoints, phi1, lambda1, phi2, lambda2, dSigma) ==
    Array([k \in 1..(numPoints + 1) |->
              GreatCirclePointAt(k - 1, numPoints, phi1, lambda1, phi2, lambda2, dSigma)])

\* GeodesicLine.calculateGreatCircle(lat1, lon1, lat2, lon2, numPoints)
calculateGreatCircle(lat1, lon1, lat2, lon2, numPoints) ==
    LET phi1    == ToRad(lat1)
        lambda1 == ToRad(lon1)
        phi2    == ToRad(lat2)
        lambda2 == ToRad(lon2)
        dLambda == lambda2 - lambda1
        cosine  == MulS(Sin(phi1), Sin(phi2)) + MulS(MulS(Cos(phi1), Cos(phi2)), Cos(dLambda))
        \* Math.acos is NaN outside [-1, 1]
        isNaN   == Abs(cosine) > Scale
        dSigma  == Acos(Clamp(cosine))
    IN  IF isNaN \/ dSigma < MinSigma
        THEN << <<lat1, lon1>>, <<lat2, lon2>> >>
        ELSE GreatCircleLoop(numPoints, phi1, lambda1, phi2, lambda2, dSigma)

\* result[currentSegment.length - 1]?.push(pt): the break point goes to the element
\* of result at index currentSegment.length - 1, when there is one
PushBreakPoint(result, index, pt) ==
    IF index + 1 <= Len(result)
    THEN [result EXCEPT ![index + 1] = Append(@, pt)]
    ELSE result

\* what the loop body of GeodesicLine.splitAtAntimeridian does on a crossing
ClassSplitCrossing(result, currentSegment, prev, pt) ==
    LET midLat == MidLat(prev[1], prev[2], pt[1], pt[2])
        midLon == IF prev[2] > 0 THEN Deg180 ELSE -Deg180
    IN  << PushBreakPoint(Append(result, currentSegment), Len(currentSegment) - 1,
                          <<midLat, midLon>>),
           << <<midLat, -midLon>>, pt >> >>

\* the loop body of GeodesicLine.splitAtAntimeridian for the point pt
ClassSplitStep(result, currentSegment, pt) ==
    IF Len(currentSegment) = 0
    THEN <<result, <<pt>> >>
    ELSE LET prev == currentSegment[Len(currentSegment)]
         IN  IF Abs(pt[2] - prev[2]) > Deg180
             THEN ClassSplitCrossing(result, currentSegment, prev, pt)
             ELSE <<result, Append(currentSegment, pt)>>

RECURSIVE ClassSplitLoop(_, _, _, _)
\* the iterations of for (let i = 0; i < points.length; i++) for the points at
\* lo..hi, in order, from acc = <<result, currentSegment>>, halved as in SplitLoop
ClassSplitLoop(points, lo, hi, acc) ==
    IF lo > hi THEN acc
    ELSE IF lo = hi THEN ClassSplitStep(acc[1], acc[2], points[lo])
    ELSE LET firstHalf == ClassSplitLoop(points, lo, (lo + hi) \div 2, acc)
         IN  IF Len(firstHalf) = 2
             THEN ClassSplitLoop(points, (lo + hi) \div 2 + 1, hi, firstHalf)
             ELSE firstHalf

RECURSIVE Flat(_)
\* Array.prototype.flat(): the elements of the elements, in order
Flat(result) == IF result = << >> THEN << >> ELSE Head(result) \o Flat(Tail(result))

\* the list result that GeodesicLine.splitAtAntimeridian builds before it flattens it
ClassSplitResult(points) ==
    LET end == ClassSplitLoop(points, 1, Len(points), << << >>, << >> >>)
    IN  PushLast(end[1], end[2])

\* GeodesicLine.splitAtAntimeridian(points)
GeodesicLine_splitAtAntimeridian(points) ==
    LET result == ClassSplitResult(points)
    IN  IF Len(result) = 1 THEN result[1] ELSE Flat(result)

\* the resolutions of GeodesicLine.createFlightPath and of createInfiniteGeodesicLine
CrossingResolution == 100

PlainResolution == 30

DashboardResolution == 100

\* GeodesicLine.createFlightPath(origin, destination)
createFlightPath(origin, destination) ==
    LET lonDiff == Abs(destination[2] - origin[2])
    IN  IF lonDiff > Deg180
        THEN GeodesicLine_splitAtAntimeridian(
                 calculateGreatCircle(origin[1], origin[2], destination[1], destination[2],
                                      CrossingResolution))
        ELSE calculateGreatCircle(origin[1], origin[2], destination[1], destination[2],
                                  PlainResolution)

(***************************************************************************)
(* The world copies                                                        *)
(***************************************************************************)
FirstOffset == -720000

LastOffset == 720000

OffsetStep == 360000

RECURSIVE OffsetsFrom(_)
\* the values of offset in for (offset = -720; offset <= 720; offset += 360)
OffsetsFrom(offset) ==
    IF offset <= LastOffset THEN <<offset>> \o OffsetsFrom(offset + OffsetStep) ELSE << >>

WorldOffsets == OffsetsFrom(FirstOffset)

\* segment.map(point => [point[0], point[1] + offset])
OffsetSegment(segment, offset) ==
    Array([k \in 1..Len(segment) |-> <<segment[k][1], segment[k][2] + offset>>])

\* a test that takes the copy at offset 0 of every segment for the primary one
IsPrimaryLine_EverySegment(offset, segmentIndex) == offset = 0

\* whether the polyline of this offset and segment is the primary one
IsPrimaryLine(offset, segmentIndex) == offset = 0 /\ segmentIndex = 0

\* the polyline of one segment at one offset; segmentIndex counts from 0
Polyline(segment, segmentIndex, offset, popupContent) ==
    [ latlngs     |-> OffsetSegment(segment, offset),
      interactive |-> IsPrimaryLine(offset, segmentIndex),
      popup       |-> IF IsPrimaryLine(offset, segmentIndex)
                      THEN (IF popupContent # "" THEN popupContent ELSE "Flight Path")
                      ELSE "" ]

\* the inner loop of createInfiniteGeodesicLine: the copies of one segment
SegmentCopies(segment, segmentIndex, popupContent) ==
    Array([k \in 1..Len(WorldOffsets) |->
              Polyline(segment, segmentIndex, WorldOffsets[k], popupContent)])

RECURSIVE LineLayers(_, _, _)
\* segments.forEach((segment, segmentIndex) => ...) from the segment at index on
LineLayers(segments, index, popupContent) ==
    IF index > Len(segments) THEN << >>
    ELSE SegmentCopies(segments[index], index - 1, popupContent)
         \o LineLayers(segments, index + 1, popupContent)

\* the segments that createInfiniteGeodesicLine draws: the geodesic points at the
\* resolution of the dashboard, split at the antimeridian
GeodesicSegments(origin, dest) ==
    LET geodesicPoints == calculateGeodesicPoints(origin[1], origin[2], dest[1], dest[2],
                                                  DashboardResolution)
    IN  splitAtAntimeridian(geodesicPoints)

\* createInfiniteGeodesicLine(origin, dest, options): the layers of lineGroup
createInfiniteGeodesicLine(origin, dest, popupContent) ==
    LineLayers(GeodesicSegments(origin, dest), 1, popupContent)

\* whether the marker of this offset is the primary one
IsPrimaryMarker(offset) == offset = 0

\* createInfiniteMarker(latlng, options, popupContent): the layers of markerGroup
createInfiniteMarker(latlng, popupContent) ==
    Array([k \in 1..Len(WorldOffsets) |->
              [ latlng      |-> <<latlng[1], latlng[2] + WorldOffsets[k]>>,
                interactive |-> IsPrimaryMarker(WorldOffsets[k]),
                popup       |-> IF IsPrimaryMarker(WorldOffsets[k]) /\ popupContent # ""
                                THEN popupContent ELSE "" ]])

(***************************************************************************)
(* Inputs                                                                  *)
(***************************************************************************)
\* the longest tripsData, and the longest point sequence handed to a splitter
MaxTrips == 2

MaxLen == 3

\* the largest of the small resolutions tried besides those of the script
MaxRes == 4

London == <<51500, -100>>

NewYork == <<40700, -74000>>

Tokyo == <<35700, 139700>>

LosAngeles == <<34000, -118200>>

\* the <<origin, dest>> pairs of the trips: two that do not cross the antimeridian,
\* two that cross it (eastwards and westwards), a trip from a place to itself, a
\* trip of 0.03 degrees across the antimeridian, and two malformed records
\* (a latitude of 95 degrees, a longitude of 200 degrees)
Routes ==
    << <<London, NewYork>>,
       <<Tokyo, LosAngeles>>,
       <<LosAngeles, Tokyo>>,
       << <<10000, 10000>>, <<10000, 10000>> >>,
       << <<0, 179980>>, <<0, -179990>> >>,
       << <<95000, 10000>>, <<20000, 50000>> >>,
       << <<20000, 200000>>, <<10000, -170000>> >> >>

RouteSet == {Routes[r] : r \in DOMAIN Routes}

\* the trip record the server renders for route r at position id of the list;
\* emissions in hundredths of a kilogram, distance in kilometres
TripRecord(id, r) ==
    [ id |-> id, origin |-> Routes[r][1], dest |-> Routes[r][2],
      emissions |-> 1230 * r + 3, distance |-> 1000 * r ]

\* the lists of at most MaxTrips trips, their ids 1, 2, ... in order
TripLists ==
    UNION { { [i \in 1..n |-> TripRecord(i, f[i])] : f \in [1..n -> DOMAIN Routes] }
            : n \in 0..MaxTrips }

\* the latitudes and longitudes of the points handed to the splitters: longitudes
\* on both sides of the antimeridian, and one past 180 that the interpolator of the
\* dashboard, which does not normalize, can return
SplitLats == {0, 40000}

SplitLons == {-170000, -100000, 10000, 175000, 200000}

SplitPoints == {<<lat, lon>> : lat \in SplitLats, lon \in SplitLons}

PointSequences == UNION { [1..n -> SplitPoints] : n \in 2..MaxLen }

Resolutions == (1..MaxRes) \cup {PlainResolution, CrossingResolution}

(***************************************************************************)
(* The page: the DOMContentLoaded handler                                  *)
(***************************************************************************)
\* the popup texts: the template literals of the script are never empty
LinePopup == "route"

OriginPopup == "Origin"

DestPopup == "Destination"

\* L.layerGroup([lineGroup, originGroup, destGroup]) for a trip from origin to dest
TripGroup(origin, dest) ==
    [ line   |-> createInfiniteGeodesicLine(origin, dest, LinePopup),
      origin |-> createInfiniteMarker(origin, OriginPopup),
      dest   |-> createInfiniteMarker(dest, DestPopup) ]

\* the trip group of each route, evaluated once: the group of a trip depends on
\* its origin and destination only
RouteGroups == Array([r \in DOMAIN Routes |-> TripGroup(Routes[r][1], Routes[r][2])])

\* the segments of each route, evaluated once
RouteSegments == Array([r \in DOMAIN Routes |-> GeodesicSegments(Routes[r][1], Routes[r][2])])

RouteOf(t) == CHOOSE r \in DOMAIN Routes : Routes[r] = <<t.origin, t.dest>>

\* the entry of tripLayers that the body of tripsData.forEach stores for trip t
TripLayer(t) ==
    [ group     |-> RouteGroups[RouteOf(t)],
      emissions |-> t.emissions,
      distance  |-> t.distance ]

\* the .trip-checkbox elements of the served page: the dashboard template, which
\* is not part of the script, lists one checkbox per trip, checked
TripCheckboxes(trips) == [id \in {trips[i].id : i \in DOMAIN trips} |-> TRUE]

\* the element ids whose text updateAnalytics writes
AnalyticsIds == {"total-emissions", "tree-equivalent", "trip-count"}

\* map.setView([40, -20], 2)
DefaultView == [center |-> <<40000, -20000>>, zoom |-> 2]

\* x.toFixed(1) of a non-negative x given in hundredths: the tenths, rounded
toFixed1(hundredths) == (hundredths + 5) \div 10

\* (x / 21).toFixed(1) of a non-negative x given in hundredths: the tenths, rounded
toFixed1Of21st(hundredths) == (2 * hundredths + 210) \div 420

RECURSIVE SumOver(_, _)
\* the += of updateAnalytics over the counted ids
SumOver(ids, amount) ==
    IF ids = {} THEN 0
    ELSE LET id == CHOOSE i \in ids : TRUE
         IN  amount[id] + SumOver(ids \ {id}, amount)

\* the checkboxes that the forEach of updateAnalytics counts: checked, and with
\* an entry in tripLayers
CountedIds(cbs, layers) == {id \in DOMAIN cbs : cbs[id] /\ id \in DOMAIN layers}

\* an updateAnalytics that counts a trip whether its checkbox is checked or not
updateAnalytics_IgnoresChecked(cbs, layers) ==
    LET counted        == DOMAIN cbs \cap DOMAIN layers
        totalEmissions == SumOver(counted, [id \in counted |-> layers[id].emissions])
        visibleCount   == Cardinality(counted)
    IN  [ e \in AnalyticsIds |->
            CASE e = "total-emissions" -> <<toFixed1(totalEmissions), "kg">>
              [] e = "tree-equivalent" -> <<toFixed1Of21st(totalEmissions), "trees">>
              [] e = "trip-count"      -> <<visibleCount>> ]

\* updateAnalytics(): the texts it writes, for checkboxes cbs and tripLayers layers;
\* a text is the number it shows (a toFixed(1) text in tenths) and its unit
updateAnalytics(cbs, layers) ==
    LET counted        == CountedIds(cbs, layers)
        totalEmissions == SumOver(counted, [id \in counted |-> layers[id].emissions])
        visibleCount   == Cardinality(counted)
    IN  [ e \in AnalyticsIds |->
            CASE e = "total-emissions" -> <<toFixed1(totalEmissions), "kg">>
              [] e = "tree-equivalent" -> <<toFixed1Of21st(totalEmissions), "trees">>
              [] e = "trip-count"      -> <<visibleCount>> ]

RECURSIVE Extent(_, _, _, _)
\* <<least, greatest>> of coordinate c of latlngs[lo..hi]
Extent(latlngs, lo, hi, c) ==
    IF lo = hi THEN <<latlngs[lo][c], latlngs[lo][c]>>
    ELSE LET mid   == (lo + hi) \div 2
             left  == Extent(latlngs, lo, mid, c)
             right == Extent(latlngs, mid + 1, hi, c)
         IN  <<Min(left[1], right[1]), Max(left[2], right[2])>>

\* layer.getBounds() of a polyline: [south, west, north, east]
getBounds(layer) ==
    LET lat == Extent(layer.latlngs, 1, Len(layer.latlngs), 1)
        lon == Extent(layer.latlngs, 1, Len(layer.latlngs), 2)
    IN  [south |-> lat[1], west |-> lon[1], north |-> lat[2], east |-> lon[2]]

\* if (layer.getBounds): a polyline has the method, a circle marker has not
HasGetBounds(layer) == "latlngs" \in DOMAIN layer

\* centerLon >= -180 && centerLon <= 180, centerLon the mean of west and east
InPrimaryWorld(layerBounds) ==
    /\ layerBounds.west + layerBounds.east >= -2 * Deg180
    /\ layerBounds.west + layerBounds.east <= 2 * Deg180

\* the bounds that fitMapToVisibleTrips pushes for one trip group
GroupBounds(group) ==
    LET layers == group.line \o group.origin \o group.dest
        pushed == SelectSeq(layers, LAMBDA layer :
                      HasGetBounds(layer) /\ InPrimaryWorld(getBounds(layer)))
    IN  Array([k \in 1..Len(pushed) |-> getBounds(pushed[k])])

RECURSIVE CollectBounds(_, _, _)
\* the array bounds of fitMapToVisibleTrips after the checkboxes in ids
CollectBounds(ids, cbs, layers) ==
    IF ids = {} THEN << >>
    ELSE LET id == CHOOSE i \in ids : \A j \in ids : i <= j
         IN  (IF cbs[id] /\ id \in DOMAIN layers
              THEN GroupBounds(layers[id].group) ELSE << >>)
             \o CollectBounds(ids \ {id}, cbs, layers)

RECURSIVE ExtendAll(_, _, _)
\* latLngBounds.extend(bound) for the bounds from index k on
ExtendAll(latLngBounds, bounds, k) ==
    IF k > Len(bounds) THEN latLngBounds
    ELSE ExtendAll([ south |-> Min(latLngBounds.south, bounds[k].south),
                     west  |-> Min(latLngBounds.west, bounds[k].west),
                     north |-> Max(latLngBounds.north, bounds[k].north),
                     east  |-> Max(latLngBounds.east, bounds[k].east) ],
                   bounds, k + 1)

\* latLngBounds.pad(0.1): a tenth of the height and of the width on every side
Pad(b) ==
    LET heightBuffer == (b.north - b.south) \div 10
        widthBuffer  == (b.east - b.west) \div 10
    IN  [ south |-> b.south - heightBuffer, west |-> b.west - widthBuffer,
          north |-> b.north + heightBuffer, east |-> b.east + widthBuffer ]

\* fitMapToVisibleTrips(): the view it sets, for checkboxes cbs and tripLayers layers
fitMapToVisibleTrips(cbs, layers) ==
    LET bounds == CollectBounds(DOMAIN cbs, cbs, layers)
    IN  IF Len(bounds) > 0
        THEN [fitBounds |-> Pad(ExtendAll(bounds[1], bounds, 1)), maxZoom |-> 10]
        ELSE DefaultView

PageInit ==
    /\ tripsData \in TripLists
    /\ pc = "loading"
    /\ next = 1
    /\ tripLayers = << >>
    /\ mapLayers = {}
    /\ noTripsGroup = << >>
    /\ checkboxes = TripCheckboxes(tripsData)
    /\ textContent = [e \in AnalyticsIds |-> << >>]
    /\ mapView = DefaultView

CallIdle ==
    /\ argPoints = << >>
    /\ argEndpoints = << >>
    /\ argNumPoints = 0
    /\ called = ""
    /\ returned = << >>

Init == PageInit /\ CallIdle

\* one iteration of window.tripsData.forEach: the groups of the trip are built,
\* tripGroup is added to the map and recorded in tripLayers
BuildTrip ==
    /\ pc = "loading"
    /\ Len(tripsData) > 0
    /\ next <= Len(tripsData)
    /\ LET t == tripsData[next]
       IN  /\ tripLayers' = (t.id :> TripLayer(t)) @@ tripLayers
           /\ mapLayers' = mapLayers \cup {t.id}
    /\ next' = next + 1
    /\ UNCHANGED <<tripsData, pc, noTripsGroup, checkboxes, textContent, mapView>>
    /\ UNCHANGED callVars

\* the else branch: no trips, one L.marker per world copy at [40, -20]; then the
\* handler goes on to its call of updateAnalytics
BuildNoTrips ==
    /\ pc = "loading"
    /\ Len(tripsData) = 0
    /\ noTripsGroup' = Array([k \in 1..Len(WorldOffsets) |->
                                [ latlng      |-> <<40000, -20000 + WorldOffsets[k]>>,
                                  interactive |-> WorldOffsets[k] = 0,
                                  popup       |-> IF WorldOffsets[k] = 0
                                                  THEN "No trips yet" ELSE "" ]])
    /\ textContent' = updateAnalytics(checkboxes, tripLayers)
    /\ pc' = "ready"
    /\ UNCHANGED <<tripsData, next, tripLayers, mapLayers, checkboxes, mapView>>
    /\ UNCHANGED callVars

\* the rest of the handler once forEach has returned: fitMapToVisibleTrips(), the
\* change listeners, and the call of updateAnalytics
FinishLoad ==
    /\ pc = "loading"
    /\ Len(tripsData) > 0
    /\ next > Len(tripsData)
    /\ mapView' = fitMapToVisibleTrips(checkboxes, tripLayers)
    /\ textContent' = updateAnalytics(checkboxes, tripLayers)
    /\ pc' = "ready"
    /\ UNCHANGED <<tripsData, next, tripLayers, mapLayers, noTripsGroup, checkboxes>>
    /\ UNCHANGED callVars

\* a change event of the checkbox of trip id: the browser has flipped the checkbox
\* when handleTripToggle(e) runs; layers.group throws when tripLayers has no entry
\* for the id, and the handler ends there
handleTripToggle ==
    /\ pc = "ready"
    /\ \E id \in DOMAIN checkboxes :
          LET cbs == [checkboxes EXCEPT ![id] = ~@]
          IN  /\ checkboxes' = cbs
              /\ IF id \in DOMAIN tripLayers
                 THEN /\ mapLayers' = IF cbs[id] THEN mapLayers \cup {id}
                                                 ELSE mapLayers \ {id}
                      /\ textContent' = updateAnalytics(cbs, tripLayers)
                      /\ mapView' = fitMapToVisibleTrips(cbs, tripLayers)
                 ELSE UNCHANGED <<mapLayers, textContent, mapView>>
    /\ UNCHANGED <<tripsData, pc, next, tripLayers, noTripsGroup>>
    /\ UNCHANGED callVars

Next == BuildTrip \/ BuildNoTrips \/ FinishLoad \/ handleTripToggle

Spec == Init /\ [][Next]_vars

(***************************************************************************)
(* The two splitters as functions of a point sequence                      *)
(***************************************************************************)
PageIdle ==
    /\ tripsData = << >>
    /\ pc = "ready"
    /\ next = 1
    /\ tripLayers = << >>
    /\ mapLayers = {}
    /\ noTripsGroup = << >>
    /\ checkboxes = << >>
    /\ textContent = [e \in AnalyticsIds |-> << >>]
    /\ mapView = DefaultView

SplitInit ==
    /\ PageIdle
    /\ argPoints \in PointSequences
    /\ argEndpoints = << >>
    /\ argNumPoints = 0
    /\ called = ""
    /\ returned = << >>

\* a call of the dashboard's splitAtAntimeridian(points)
CallSplit ==
    /\ called = ""
    /\ called' = "splitAtAntimeridian"
    /\ returned' = splitAtAntimeridian(argPoints)
    /\ UNCHANGED <<argPoints, argEndpoints, argNumPoints>>
    /\ UNCHANGED pageVars

\* a call of GeodesicLine.splitAtAntimeridian(points)
CallClassSplit ==
    /\ called = ""
    /\ called' = "GeodesicLine.splitAtAntimeridian"
    /\ returned' = GeodesicLine_splitAtAntimeridian(argPoints)
    /\ UNCHANGED <<argPoints, argEndpoints, argNumPoints>>
    /\ UNCHANGED pageVars

SplitNext == CallSplit \/ CallClassSplit

SplitSpec == SplitInit /\ [][SplitNext]_vars

(***************************************************************************)
(* The interpolators and the flight path as functions of two end points       *)
(***************************************************************************)
InterpInit ==
    /\ PageIdle
    /\ argPoints = << >>
    /\ argEndpoints \in RouteSet
    /\ argNumPoints \in Resolutions
    /\ called = ""
    /\ returned = << >>

\* a call of calculateGeodesicPoints(lat1, lon1, lat2, lon2, numPoints)
CallGeodesicPoints ==
    /\ called = ""
    /\ called' = "calculateGeodesicPoints"
    /\ returned' = calculateGeodesicPoints(argEndpoints[1][1], argEndpoints[1][2],
                                           argEndpoints[2][1], argEndpoints[2][2], argNumPoints)
    /\ UNCHANGED <<argPoints, argEndpoints, argNumPoints>>
    /\ UNCHANGED pageVars

\* a call of GeodesicLine.calculateGreatCircle(lat1, lon1, lat2, lon2, numPoints)
CallGreatCircle ==
    /\ called = ""
    /\ called' = "GeodesicLine.calculateGreatCircle"
    /\ returned' = calculateGreatCircle(argEndpoints[1][1], argEndpoints[1][2],
                                        argEndpoints[2][1], argEndpoints[2][2], argNumPoints)
    /\ UNCHANGED <<argPoints, argEndpoints, argNumPoints>>
    /\ UNCHANGED pageVars

\* a call of GeodesicLine.createFlightPath(origin, destination)
CallCreateFlightPath ==
    /\ called = ""
    /\ called' = "GeodesicLine.createFlightPath"
    /\ returned' = createFlightPath(argEndpoints[1], argEndpoints[2])
    /\ UNCHANGED <<argPoints, argEndpoints, argNumPoints>>
    /\ UNCHANGED pageVars

InterpNext == CallGeodesicPoints \/ CallGreatCircle \/ CallCreateFlightPath

InterpSpec == InterpInit /\ [][InterpNext]_vars

(***************************************************************************)
(* Properties                                                              *)
(***************************************************************************)
\* the trips whose groups have been built
Built == DOMAIN tripLayers

LatInRange(p) == -90000 <= p[1] /\ p[1] <= 90000

LonInRange(p) == -180000 <= p[2] /\ p[2] <= 180000

ValidPoint(p) == LatInRange(p) /\ LonInRange(p)

\* the raw longitude difference of two end points is more than 180 degrees
RawCrossing(p1, p2) == Abs(p2[2] - p1[2]) > 180000

\* two end points more than a degree apart, far from the degenerate case of the
\* interpolators
Apart(p1, p2) ==
    /\ Abs(p2[1] - p1[1]) + Abs(p2[2] - p1[2]) > 1000
    /\ 360000 - Abs(p2[2] - p1[2]) > 1000

\* equal up to the rounding of the fixed-point arithmetic (0.005 degrees)
Near(p, q) == Abs(p[1] - q[1]) <= 5 /\ Abs(p[2] - q[2]) <= 5

\* the offsets of the world copies, in the order of the units of a group
CopyOffsets == <<-720000, -360000, 0, 360000, 720000>>

\* the offset of unit j of a line group, whose units come segment by segment
UnitOffset(j) == CopyOffsets[((j - 1) % 5) + 1]

\* the segments of a line group as drawn in the primary world
PrimarySegments(line) == [s \in 1..(Len(line) \div 5) |-> line[5 * (s - 1) + 3].latlngs]

\* no two consecutive points of the sequence differ by more than 180 degrees
NoJump(points) ==
    \A k \in 1..(Len(points) - 1) : Abs(points[k + 1][2] - points[k][2]) <= 180000

\* the indices i of points with a crossing between points[i - 1] and points[i]
Crossings(points) ==
    {i \in 2..Len(points) : Abs(points[i][2] - points[i - 1][2]) > 180000}

\* the segment without the boundary points inserted at its ends: segment k of n
\* starts with one unless k = 1 and ends with one unless k = n
Interior(segment, k, n) ==
    SubSeq(segment, IF k = 1 THEN 1 ELSE 2, IF k = n THEN Len(segment) ELSE Len(segment) - 1)

RECURSIVE JoinInteriors(_, _)
JoinInteriors(segments, k) ==
    IF k > Len(segments) THEN << >>
    ELSE Interior(segments[k], k, Len(segments)) \o JoinInteriors(segments, k + 1)

NotOnAntimeridian(p) == Abs(p[2]) # 180000

\* the crossing point the specification places between points[i - 1] and points[i]
\* and its mirror image
CrossingPoint(points, i) ==
    <<MidLat(points[i - 1][1], points[i - 1][2], points[i][1], points[i][2]),
      IF points[i - 1][2] > 0 THEN 179999 ELSE -179999>>

MirrorPoint(points, i) == <<CrossingPoint(points, i)[1], -CrossingPoint(points, i)[2]>>

\* the crossing at index i is the one that closes segment number Rank
Rank(points, i) == Cardinality({j \in Crossings(points) : j <= i})

\* segment s ends with points[i - 1], crossing point and segment s + 1 starts with
\* mirror point, points[i]
SplitAt(segments, s, points, i) ==
    /\ s + 1 <= Len(segments)
    /\ Len(segments[s]) >= 2
    /\ segments[s][Len(segments[s])] = CrossingPoint(points, i)
    /\ segments[s][Len(segments[s]) - 1] = points[i - 1]
    /\ Len(segments[s + 1]) >= 2
    /\ segments[s + 1][1] = MirrorPoint(points, i)
    /\ segments[s + 1][2] = points[i]

C2_CrossingTripIsSplit ==
    \A id \in Built :
        LET t    == tripsData[id]
            segs == PrimarySegments(tripLayers[id].group.line)
        IN  (ValidPoint(t.origin) /\ ValidPoint(t.dest) /\ RawCrossing(t.origin, t.dest)) =>
                /\ Len(segs) >= 2
                /\ \A s \in 1..(Len(segs) - 1) :
                       /\ Abs(segs[s][Len(segs[s])][2]) = 179999
                       /\ segs[s + 1][1][2] = -segs[s][Len(segs[s])][2]

\* C3: every point of every unit of the line of a built trip with valid
\* coordinates has, once the offset of its world copy is taken off, a longitude
\* in [-180, 180]
C3_LongitudesNormalized ==
    \A id \in Built :
        LET t    == tripsData[id]
            line == tripLayers[id].group.line
        IN  (ValidPoint(t.origin) /\ ValidPoint(t.dest)) =>
                \A j \in 1..Len(line) :
                    \A k \in 1..Len(line[j].latlngs) :
                        /\ line[j].latlngs[k][2] - UnitOffset(j) >= -180000
                        /\ line[j].latlngs[k][2] - UnitOffset(j) <= 180000

\* C4: the line of a built trip has exactly 5 units per segment, the copies of the
\* segment at the offsets -720, -360, 0, 360, 720, of which exactly one is
\* interactive and has a popup: the copy at offset 0 of the first segment; each
\* marker has exactly 5 units at the same offsets, of which exactly the one at
\* offset 0 is interactive
C4_FiveCopiesOnePrimary ==
    \A id \in Built :
        LET t    == tripsData[id]
            g    == tripLayers[id].group
            segs == RouteSegments[RouteOf(t)]
        IN  /\ Len(g.line) = 5 * Len(segs)
            /\ \A s \in 1..Len(segs) :
                   \A k \in 1..5 :
                       g.line[5 * (s - 1) + k].latlngs
                           = [n \in 1..Len(segs[s]) |->
                                 <<segs[s][n][1], segs[s][n][2] + CopyOffsets[k]>>]
            /\ {j \in 1..Len(g.line) : g.line[j].interactive} = {3}
            /\ {j \in 1..Len(g.line) : g.line[j].popup # ""} = {3}
            /\ Len(g.origin) = 5
            /\ Len(g.dest) = 5
            /\ \A k \in 1..5 :
                   /\ g.origin[k].latlng = <<t.origin[1], t.origin[2] + CopyOffsets[k]>>
                   /\ g.dest[k].latlng = <<t.dest[1], t.dest[2] + CopyOffsets[k]>>
            /\ {k \in 1..5 : g.origin[k].interactive} = {3}
            /\ {k \in 1..5 : g.dest[k].interactive} = {3}

\* a trip drawn as two segments has been built
C4_Witness ==
    \E id \in Built :
        /\ Len(RouteSegments[RouteOf(tripsData[id])]) = 2
        /\ Len(tripLayers[id].group.line) = 10

\* C5: the segments returned by a splitter, joined in order without the boundary
\* points the splitter inserted, are the sequence it was given
C5_SplitKeepsThePoints ==
    /\ called = "splitAtAntimeridian" => JoinInteriors(returned, 1) = argPoints
    /\ called = "GeodesicLine.splitAtAntimeridian" =>
           SelectSeq(returned, NotOnAntimeridian) = argPoints

\* the dashboard's splitter has returned three segments: two crossings
C5_Witness ==
    /\ called = "splitAtAntimeridian"
    /\ Cardinality(Crossings(argPoints)) = 2
    /\ Len(returned) = 3

\* C6: for valid end points more than a degree apart, an interpolator called with
\* n returns exactly n + 1 points, the first equal to p1 and the last equal to p2
C6_EndpointsReturned ==
    ( /\ called \in {"calculateGeodesicPoints", "GeodesicLine.calculateGreatCircle"}
      /\ ValidPoint(argEndpoints[1])
      /\ ValidPoint(argEndpoints[2])
      /\ Apart(argEndpoints[1], argEndpoints[2]) ) =>
        /\ Len(returned) = argNumPoints + 1
        /\ Near(returned[1], argEndpoints[1])
        /\ Near(returned[Len(returned)], argEndpoints[2])

\* C7: a processed trip with a latitude outside [-90, 90] or a longitude outside
\* [-180, 180] has no units, on the map or in tripLayers, and the other processed
\* trips are on the map
C7_InvalidTripRejected ==
    \A i \in 1..(next - 1) :
        IF ValidPoint(tripsData[i].origin) /\ ValidPoint(tripsData[i].dest)
        THEN i \in mapLayers
        ELSE i \notin mapLayers /\ i \notin Built

\* C8: the line of a built trip with valid end points more than a degree apart has
\* the points of resolution 100 (101 points) if the raw longitude difference is
\* more than 180 degrees and those of resolution 30 (31 points) otherwise
C8_ResolutionByLongitudeDifference ==
    \A id \in Built :
        LET t    == tripsData[id]
            segs == PrimarySegments(tripLayers[id].group.line)
        IN  (ValidPoint(t.origin) /\ ValidPoint(t.dest) /\ Apart(t.origin, t.dest)) =>
                Len(JoinInteriors(segs, 1))
                    = IF RawCrossing(t.origin, t.dest) THEN 101 ELSE 31

\* C9: a point sequence in which no two consecutive points differ by more than
\* 180 degrees in longitude comes back from a splitter as one segment, the
\* sequence itself
C9_NoJumpOneSegment ==
    NoJump(argPoints) =>
        /\ called = "splitAtAntimeridian" => returned = <<argPoints>>
        /\ called = "GeodesicLine.splitAtAntimeridian" => returned = argPoints

\* the dashboard's splitter has returned a sequence of three points, two of them
\* 180 degrees apart, which has no jump
C9_Witness ==
    /\ called = "splitAtAntimeridian"
    /\ Len(argPoints) = 3
    /\ NoJump(argPoints)
    /\ \E k \in 1..2 : Abs(argPoints[k + 1][2] - argPoints[k][2]) = 180000
    /\ returned = <<argPoints>>

\* C10: in both splitters, for every crossing between p[i - 1] and p[i], the
\* segment being closed ends with p[i - 1] and the crossing point (midLat,
\* 179.999 on the side of p[i - 1]) and the next segment starts with the mirrored
\* point (midLat, 179.999 on the other side) followed by p[i]
C10_CrossingPointsPlaced ==
    /\ called = "splitAtAntimeridian" =>
           \A i \in Crossings(argPoints) :
               SplitAt(returned, Rank(argPoints, i), argPoints, i)
    /\ called = "GeodesicLine.splitAtAntimeridian" =>
           \A i \in Crossings(argPoints) :
               SplitAt(ClassSplitResult(argPoints), Rank(argPoints, i), argPoints, i)

\* the trips of tripsData whose checkbox is checked and that have a layer
CheckedTrips ==
    {i \in DOMAIN tripsData : /\ tripsData[i].id \in DOMAIN tripLayers
                              /\ checkboxes[tripsData[i].id]}

\* once the page is loaded: the group of a trip is on the map exactly when its
\* checkbox is checked, and the trip count and the total emissions shown are those
\* of the checked trips that have a layer
ShownIsChecked ==
    pc = "ready" =>
        /\ \A i \in DOMAIN tripsData :
              tripsData[i].id \in mapLayers <=> checkboxes[tripsData[i].id]
        /\ textContent["trip-count"] = <<Cardinality(CheckedTrips)>>
        /\ textContent["total-emissions"] =
              <<toFixed1(SumOver(CheckedTrips,
                                 [i \in CheckedTrips |-> tripsData[i].emissions])), "kg">>

\* a step that flips the checkbox of one trip leaves the group of every other trip
\* on the map, or off it, as it was
ToggleIsLocal ==
    \A id \in DOMAIN checkboxes :
        checkboxes'[id] # checkboxes[id] =>
            \A other \in DOMAIN checkboxes \ {id} :
                (other \in mapLayers') <=> (other \in mapLayers)

=============================================================================
